---- MODULE Spec2Model ----
(***************************************************************************)
(* Model of cmd/mtnormalise.cpp: multi-tissue informed log-domain          *)
(* intensity normalisation.  run() is modelled as a state machine whose    *)
(* steps are the stages of the function; images are functions over the     *)
(* voxels of a single-row grid.                                            *)
(*                                                                         *)
(* Numbers.  float/double values are modelled in fixed point: a value x of *)
(* the image domain is the integer x * Scale; a value of the log domain is *)
(* an integer count of steps of ln(2)/LogSteps (all log-domain arithmetic  *)
(* of the program is linear, so the unit cancels).  NaN, +Inf and -Inf are *)
(* out-of-band integers with IEEE propagation rules.                       *)
(***************************************************************************)
EXTENDS Integers, Sequences, FiniteSets, TLC

\* ------------------------------------------------------------------ bounds
NumVoxels == 5          \* voxels of the grid (one row along x)
NumWorkers == 2         \* threads of a ThreadedLoop
MaxIter == 2            \* largest value of the -niter option explored

Voxels == 1..NumVoxels
Workers == 1..NumWorkers

\* ------------------------------------------------------- program constants
DEFAULT_BALANCE_MAXITER_VALUE == 7
COARSE_RANGE2 == 6      \* outlier_rejection (3.f),  in halves
FINE_RANGE2 == 3        \* outlier_rejection (1.5f), in halves

\* ---------------------------------------------------- floating-point model
Scale == 16             \* image-domain resolution: 1.0 is Scale
LogSteps == 8           \* log-domain resolution: ln 2 is LogSteps
LogLimit == 96          \* |log| beyond which exp under/overflows
Inf == 1000000000
NegInf == 0 - Inf
NaN == 2000000000

IsNaN(x) == x = NaN
IsFinite(x) == x # NaN /\ x # Inf /\ x # NegInf

\* rounding division, b > 0
RDiv(a, b) == (a + b \div 2) \div b

FNeg(a) == IF IsNaN(a) THEN NaN ELSE 0 - a

FAdd(a, b) ==
  IF IsNaN(a) \/ IsNaN(b) THEN NaN
  ELSE IF a = Inf THEN (IF b = NegInf THEN NaN ELSE Inf)
  ELSE IF a = NegInf THEN (IF b = Inf THEN NaN ELSE NegInf)
  ELSE IF b = Inf \/ b = NegInf THEN b
  ELSE a + b

FSub(a, b) == FAdd(a, FNeg(b))

Sign(a) == IF a > 0 THEN 1 ELSE IF a < 0 THEN 0 - 1 ELSE 0

\* product of an integer factor k (plain, not fixed point) and a value
FMulInt(k, a) ==
  IF IsNaN(a) THEN NaN
  ELSE IF a = Inf \/ a = NegInf
       THEN (IF k = 0 THEN NaN ELSE IF Sign(k) = Sign(a) THEN Inf ELSE NegInf)
  ELSE k * a

\* product of two image-domain values
FMul(a, b) ==
  IF IsNaN(a) \/ IsNaN(b) THEN NaN
  ELSE IF ~IsFinite(a) \/ ~IsFinite(b)
       THEN (IF a = 0 \/ b = 0 THEN NaN
             ELSE IF Sign(a) = Sign(b) THEN Inf ELSE NegInf)
  ELSE RDiv(a * b, Scale)

\* quotient of two image-domain values
FDiv(a, b) ==
  IF IsNaN(a) \/ IsNaN(b) THEN NaN
  ELSE IF ~IsFinite(b) THEN (IF IsFinite(a) THEN 0 ELSE NaN)
  ELSE IF ~IsFinite(a) THEN (IF Sign(a) * Sign(b) >= 0 THEN Inf ELSE NegInf)
  ELSE IF b = 0 THEN (IF a = 0 THEN NaN ELSE IF a > 0 THEN Inf ELSE NegInf)
  ELSE IF b < 0 THEN RDiv((0 - a) * Scale, 0 - b)
  ELSE RDiv(a * Scale, b)

\* a < b, a > b, a <= b on floats: false whenever an operand is NaN
FLess(a, b) == ~IsNaN(a) /\ ~IsNaN(b) /\ a < b
FLeq(a, b) == ~IsNaN(a) /\ ~IsNaN(b) /\ a <= b

\* std::max<float> (a, b) is (a < b) ? b : a
FMax(a, b) == IF FLess(a, b) THEN b ELSE a

Pow2(e) == IF e <= 0 THEN 1 ELSE 2 ^ e

\* 2^(i/LogSteps) * Scale * 16 for i = 0 .. LogSteps-1
ExpFrac == <<256, 279, 304, 332, 362, 395, 431, 470>>

\* std::exp: log-domain value to image-domain value
Exp(l) ==
  IF IsNaN(l) THEN NaN
  ELSE IF l = NegInf \/ (l # Inf /\ l < 0 - LogLimit) THEN 0
  ELSE IF l > LogLimit THEN Inf
  ELSE LET e == l \div LogSteps
           f == ExpFrac[(l % LogSteps) + 1]
       IN  IF e >= 4 THEN f * Pow2(e - 4) ELSE RDiv(f, Pow2(4 - e))

\* std::log: image-domain value to log-domain value (largest l with
\* Exp(l) <= v); log of 0 is -Inf, log of a negative value is NaN
Log(v) ==
  IF IsNaN(v) THEN NaN
  ELSE IF v = Inf THEN Inf
  ELSE IF v < 0 THEN NaN
  ELSE IF v = 0 THEN NegInf
  ELSE IF v >= Exp(LogLimit) THEN LogLimit
  ELSE CHOOSE l \in (0 - LogLimit)..(LogLimit - 1) : Exp(l) <= v /\ Exp(l + 1) > v

\* ------------------------------------------------------------ linear algebra
\* determinant of the n x n matrix M (a function on (1..n) x (1..n)), by
\* expansion along the first row
RECURSIVE Det(_, _)
Det(M, n) ==
  IF n = 0 THEN 1
  ELSE IF n = 1 THEN M[1][1]
  ELSE LET Minor(c) == [i \in 1..(n - 1) |->
                          [j \in 1..(n - 1) |-> M[i + 1][IF j < c THEN j ELSE j + 1]]]
           RECURSIVE Expand(_)
           Expand(c) == IF c > n THEN 0
                        ELSE (IF c % 2 = 1 THEN 1 ELSE 0 - 1) * M[1][c] * Det(Minor(c), n - 1)
                             + Expand(c + 1)
       IN  Expand(1)

RECURSIVE SumSeq(_)
SumSeq(s) == IF s = <<>> THEN 0 ELSE Head(s) + SumSeq(Tail(s))

\* M = X.transpose() * X for the rows X (a sequence of n-vectors)
NormalMatrix(X, n) ==
  [i \in 1..n |-> [j \in 1..n |-> SumSeq([r \in 1..Len(X) |-> X[r][i] * X[r][j]])]]

\* alpha = X.transpose() * y
NormalVector(X, y, n) ==
  [i \in 1..n |-> SumSeq([r \in 1..Len(X) |-> X[r][i] * y[r]])]

\* the Cholesky factorisation M = L L^T exists with a positive diagonal
\* exactly when every leading principal minor of M is positive
PositiveDefinite(M, n) == \A k \in 1..n : Det(M, k) > 0

\* an entry of X or y is NaN or infinite
NonFinite(X, y, n) ==
  \E r \in 1..Len(X) : ~IsFinite(y[r]) \/ \E i \in 1..n : ~IsFinite(X[r][i])

\* results Eigen's LLT::solve can leave when the factorisation failed (its
\* info() is NumericalIssue, which Choleski never reads): a sample of the
\* vectors with NaN, zero and positive entries, in units of one
GarbageVectors(n, one) ==
  { [i \in 1..n |-> NaN],
    [i \in 1..n |-> IF i = 1 THEN one ELSE 0],
    [i \in 1..n |-> IF i = 1 THEN 2 * one ELSE one] }

\* Choleski (X, y): the set of results M.llt().solve (alpha) can return for
\* n columns.  With M positive definite it is the solution of M res = alpha
\* (Cramer's rule, rounded); llt() raises no error otherwise.
Choleski(X, y, n, one) ==
  LET M == NormalMatrix(X, n)
      alpha == NormalVector(X, y, n)
      d == Det(M, n)
      Col(c) == [i \in 1..n |-> [j \in 1..n |-> IF j = c THEN alpha[i] ELSE M[i][j]]]
  IN  IF NonFinite(X, y, n) THEN {[i \in 1..n |-> NaN]}
      ELSE IF PositiveDefinite(M, n) THEN {[i \in 1..n |-> RDiv(Det(Col(i), n), d)]}
      ELSE GarbageVectors(n, one)

\* whether the matrix handed to llt() by Choleski (X, y) is positive definite
SolvablePD(X, y, n) == ~NonFinite(X, y, n) /\ PositiveDefinite(NormalMatrix(X, n), n)

\* ------------------------------------------------------------------- inputs
\* tissue profiles along the row, in units of 1.0; a profile repeats after
\* its last entry
Profiles ==
  { <<0, 0, 0, 0, 0, 0, 0, 0>>,
    <<1, 1, 1, 1, 1, 1, 1, 1>>,
    <<0, 0, 1, 2, 2, 1, 2, 0>>,
    <<1, 2, 2, 2, 2, 2, 2, 2>>,
    <<1, 1, 0, 0, 0, 1, 0, 0>>,
    <<NaN, 0 - 2, 1, 1, 2, 1, 1, 1>> }
SecondProfiles ==
  { <<1, 1, 1, 1, 1, 1, 1, 1>>,
    <<1, 2, 2, 0, 0, 2, 0, 1>>,
    <<2, 2, 1, 1, 1, 2, 1, 1>> }

ImageOf(p) ==
  [v \in Voxels |-> LET x == p[((v - 1) % Len(p)) + 1]
                    IN  IF IsNaN(x) THEN NaN ELSE x * Scale]

\* one tissue, or two tissues
InputSets ==
  {<<ImageOf(p)>> : p \in Profiles}
    \cup {<<ImageOf(p), ImageOf(q)>> : p \in Profiles, q \in SecondProfiles}

\* the image given with -mask
MaskImages ==
  { [v \in Voxels |-> TRUE],
    [v \in Voxels |-> FALSE],
    [v \in Voxels |-> v \in {3, 4}] }

Orders == {0, 1}
ReferenceValues == {Scale \div 2, Scale}

\* ------------------------------------------------------------ basis functions
GetBasisVecs(ord) ==
  CASE ord = 0 -> 1
    [] ord = 1 -> 4
    [] ord = 2 -> 10
    [] OTHER -> 20

\* transform.voxel2scanner * vox for the identity transform of a grid of
\* unit voxels that is one voxel wide along its innermost axis, so that a
\* ThreadedLoop hands every voxel to a thread by itself: voxel v (1-based
\* here) lies at (0, v - 1, 0)
Position(v) == <<0, v - 1, 0>>

\* PolyBasisFunction::operator(): the first n terms of the cubic basis
PolyBasisFunction(n, pos) ==
  LET x == pos[1]
      y == pos[2]
      z == pos[3]
      all == <<1, x, y, z,
               x * x, y * y, z * z, x * y, x * z, y * z,
               x * x * x, y * y * y, z * z * z, x * x * y, x * x * z,
               y * y * x, y * y * z, z * z * x, z * z * y, x * y * z>>
  IN  [i \in 1..n |-> all[i]]

\* ----------------------------------------------------------- outlier rejection
RECURSIVE FSum(_)
FSum(s) == IF s = <<>> THEN 0 ELSE FAdd(FSum(SubSeq(s, 1, Len(s) - 1)), s[Len(s)])

\* log (sum_j balance_factors[j] * comb / field) at voxel v
SummedLogAt(bf, comb, field, v) ==
  Log(FSum([j \in 1..Len(comb) |-> FDiv(FMul(bf[j], comb[j][v]), field[v])]))

\* the values of img at the true voxels of m, in loop order
RECURSIVE Collect(_, _, _)
Collect(m, img, v) ==
  IF v > NumVoxels THEN <<>>
  ELSE (IF m[v] THEN <<img[v]>> ELSE <<>>) \o Collect(m, img, v + 1)

\* std::round ((float) n * 0.25f) and std::round ((float) n * 0.75f)
LowerQuartileIndex(n) == (n + 2) \div 4
UpperQuartileIndex(n) == (3 * n + 2) \div 4

\* the element of 0-based rank k of vals in ascending order
Ranked(vals, k) ==
  LET i == CHOOSE i \in 1..Len(vals) :
             /\ Cardinality({h \in 1..Len(vals) : vals[h] < vals[i]}) <= k
             /\ Cardinality({h \in 1..Len(vals) : vals[h] <= vals[i]}) > k
  IN  vals[i]

\* what a float read from beyond the end of summed_log_values can hold
GarbageFloats == {NaN, NegInf, Inf}

\* the values *(summed_log_values.begin() + k) can have after nth_element:
\* a read past the end is undefined, and so is the order when the values
\* hold a NaN (operator< is then no strict weak ordering)
QuartileValues(vals, k) ==
  IF k >= Len(vals) THEN GarbageFloats
  ELSE IF \E i \in 1..Len(vals) : IsNaN(vals[i]) THEN {vals[i] : i \in 1..Len(vals)}
  ELSE {Ranked(vals, k)}

\* twice the outlier thresholds, for the range given in halves
LowerThreshold2(q1, q3, range2) == FSub(FMulInt(2, q1), FMulInt(range2, FSub(q3, q1)))
UpperThreshold2(q1, q3, range2) == FAdd(FMulInt(2, q3), FMulInt(range2, FSub(q3, q1)))

\* summed_log.value() < lower_outlier_threshold || ... > upper_outlier_threshold
IsOutlier(x, q1, q3, range2) ==
  \/ FLess(FMulInt(2, x), LowerThreshold2(q1, q3, range2))
  \/ FLess(UpperThreshold2(q1, q3, range2), FMulInt(2, x))

\* the lambda outlier_rejection: the set of its possible outcomes
OutlierRejection(range2, init_mask, bf, comb, field) ==
  LET sl == [v \in Voxels |-> SummedLogAt(bf, comb, field, v)]
      vals == Collect(init_mask, sl, 1)
      n == Len(vals)
  IN  { LET m == [v \in Voxels |-> init_mask[v] /\ ~IsOutlier(sl[v], q1, q3, range2)]
        IN  [mask |-> m,
             num_voxels |-> n - Cardinality({v \in Voxels : init_mask[v] /\ ~m[v]}),
             summed_log |-> sl,
             collected |-> n,
             lower_quartile |-> q1,
             upper_quartile |-> q3,
             range2 |-> range2]
        : q1 \in QuartileValues(vals, LowerQuartileIndex(n)),
          q3 \in QuartileValues(vals, UpperQuartileIndex(n)) }

\* -------------------------------------------------------------------- state
VARIABLES
  pc,                 \* position in run ()
  order,              \* -order
  input_images,       \* the input tissue images (first volume)
  orig_mask,          \* -mask
  reference_value,    \* -value
  max_iter,           \* -niter
  initial_mask, mask, prev_mask,
  combined_tissue,
  num_voxels,
  cursor,             \* voxels handed out by the running ThreadedLoop
  pending,            \* per thread: the value of num_voxels read by ++, or Idle
  norm_field_weights, norm_field_image, norm_field_log,
  balance_factors,
  iter, balance_iter, balance_converged,
  rejection,          \* locals of the last outlier_rejection call
  error,              \* the Exception thrown, if any
  output_written,     \* an output image has been created
  output_balanced,    \* the option -balanced
  later_volumes,      \* the volumes after the first of every input, at any voxel
  output_images,      \* per tissue and voxel, the row of volumes written
  lognorm_scale,      \* the value recorded as lognorm_scale in the output headers
  run,                \* 1 in the first run of the command, 2 in a second run on the same input
  first_run,          \* the options and the results of the first run, once it is over
  llt_failed,         \* history: Choleski was given a matrix that is not positive definite
  last_stage,         \* history: the stage executed last
  n_fits              \* history: number of field fits executed

vars == <<pc, order, input_images, orig_mask, reference_value, max_iter,
          initial_mask, mask, prev_mask, combined_tissue, num_voxels, cursor,
          pending, norm_field_weights, norm_field_image, norm_field_log,
          balance_factors, iter, balance_iter, balance_converged, rejection,
          error, output_written, output_balanced, later_volumes, output_images,
          lognorm_scale, run, first_run, llt_failed, last_stage, n_fits>>

n_tissue_types == Len(input_images)

Idle == 0 - 1
NoError == [msg |-> "", tissue |-> 0, value |-> 0]
NoRejection == [mask |-> [v \in Voxels |-> FALSE], num_voxels |-> 0,
                summed_log |-> [v \in Voxels |-> 0], collected |-> 0,
                lower_quartile |-> 0, upper_quartile |-> 0, range2 |-> 0]

config == <<order, input_images, orig_mask>>
images == <<initial_mask, combined_tissue>>
fields == <<norm_field_weights, norm_field_image, norm_field_log>>
loops == <<iter, balance_iter, balance_converged>>
history == <<last_stage, n_fits>>
counting == <<cursor, pending>>
outputs == <<output_balanced, later_volumes, output_images, lognorm_scale>>
runs == <<run, first_run>>
NoRun == [reference_value |-> 0, max_iter |-> 0, balance_factors |-> <<>>,
          mask |-> <<>>, norm_field_image |-> <<>>]

Init ==
  /\ pc = "setup"
  /\ order \in Orders
  /\ input_images \in InputSets
  /\ orig_mask \in MaskImages
  /\ reference_value = 0
  /\ max_iter = 0
  /\ initial_mask = [v \in Voxels |-> FALSE]
  /\ mask = [v \in Voxels |-> FALSE]
  /\ prev_mask = [v \in Voxels |-> FALSE]
  /\ combined_tissue = [j \in 1..n_tissue_types |-> [v \in Voxels |-> 0]]
  /\ num_voxels = 0
  /\ cursor = 0
  /\ pending = [w \in Workers |-> Idle]
  /\ norm_field_weights = <<>>
  /\ norm_field_image = [v \in Voxels |-> 0]
  /\ norm_field_log = [v \in Voxels |-> 0]
  /\ balance_factors = <<>>
  /\ iter = 0
  /\ balance_iter = 0
  /\ balance_converged = FALSE
  /\ rejection = NoRejection
  /\ error = NoError
  /\ output_written = FALSE
  /\ output_balanced = FALSE
  /\ later_volumes = <<>>
  /\ output_images = <<>>
  /\ lognorm_scale = 0
  /\ run = 1
  /\ first_run = NoRun
  /\ llt_failed = FALSE
  /\ last_stage = "none"
  /\ n_fits = 0

\* struct mask_refiner
\* mask_refiner that keeps a voxel whose summed value is zero
MaskRefinerLoose(summed, m) == IsFinite(summed) /\ summed >= 0 /\ m

\* mask_refiner: std::isfinite (float (summed)) && summed > 0.f && initial_mask
MaskRefiner(summed, m) == IsFinite(summed) /\ summed > 0 /\ m

\* the initial mask, the working mask and the zero-clamped tissue image
Setup ==
  /\ pc = "setup"
  /\ LET summed == [v \in Voxels |->
                      FSum([j \in 1..n_tissue_types |-> input_images[j][v]])]
         refined == [v \in Voxels |-> MaskRefiner(summed[v], orig_mask[v])]
     IN  /\ initial_mask' = refined
         /\ mask' = refined
  /\ combined_tissue' = [j \in 1..n_tissue_types |->
                           [v \in Voxels |-> FMax(input_images[j][v], 0)]]
  /\ pc' = "count"
  /\ UNCHANGED <<config, reference_value, max_iter, prev_mask, num_voxels, counting,
                 fields, balance_factors, loops, rejection, error, output_written, outputs, runs,
                 llt_failed, history>>

\* ThreadedLoop (mask, 0, 3).run ([&num_voxels] ... ++num_voxels): a thread
\* takes the next voxel and, where the mask is set, reads the shared counter
CountRead(w) ==
  /\ pc = "count"
  /\ pending[w] = Idle
  /\ cursor < NumVoxels
  /\ cursor' = cursor + 1
  /\ pending' = IF mask[cursor + 1] THEN [pending EXCEPT ![w] = num_voxels] ELSE pending
  /\ UNCHANGED <<pc, config, reference_value, max_iter, images, mask, prev_mask,
                 num_voxels, fields, balance_factors, loops, rejection, error,
                 output_written, outputs, runs, llt_failed, history>>

\* CountWrite that writes back the value it read
CountWriteStale(w) ==
  /\ pc = "count"
  /\ pending[w] # Idle
  /\ num_voxels' = pending[w]
  /\ pending' = [pending EXCEPT ![w] = Idle]
  /\ UNCHANGED <<pc, config, reference_value, max_iter, images, mask, prev_mask,
                 cursor, fields, balance_factors, loops, rejection, error,
                 output_written, outputs, runs, llt_failed, history>>

\* ... and writes back the value it read plus one
CountWrite(w) ==
  /\ pc = "count"
  /\ pending[w] # Idle
  /\ num_voxels' = pending[w] + 1
  /\ pending' = [pending EXCEPT ![w] = Idle]
  /\ UNCHANGED <<pc, config, reference_value, max_iter, images, mask, prev_mask,
                 cursor, fields, balance_factors, loops, rejection, error,
                 output_written, outputs, runs, llt_failed, history>>

CountFinished == cursor = NumVoxels /\ \A w \in Workers : pending[w] = Idle

\* if (!num_voxels) throw Exception ("Mask contains no valid voxels.")
EmptyMask ==
  /\ pc = "count"
  /\ CountFinished
  /\ num_voxels = 0
  /\ error' = [NoError EXCEPT !.msg = "Mask contains no valid voxels."]
  /\ pc' = "aborted"
  /\ UNCHANGED <<config, reference_value, max_iter, images, mask, prev_mask,
                 num_voxels, counting, fields, balance_factors, loops, rejection,
                 output_written, outputs, runs, llt_failed, history>>

\* the options read after the count, the unit field and the unit factors
Initialise ==
  /\ pc = "count"
  /\ CountFinished
  /\ num_voxels # 0
  /\ reference_value' \in (IF run = 1 THEN ReferenceValues ELSE {first_run.reference_value})
  /\ max_iter' \in (IF run = 1 THEN 0..MaxIter ELSE {first_run.max_iter})
  /\ norm_field_image' = [v \in Voxels |-> Scale]
  /\ balance_factors' = [j \in 1..n_tissue_types |-> Scale]
  /\ iter' = 1
  /\ pc' = "coarse"
  /\ UNCHANGED <<config, images, mask, prev_mask, num_voxels, counting,
                 norm_field_weights, norm_field_log, balance_iter, balance_converged,
                 rejection, error, output_written, outputs, runs, llt_failed, history>>

\* outlier_rejection (3.f); threaded_copy (mask, prev_mask)
CoarseRejection ==
  /\ pc = "coarse"
  /\ \E r \in OutlierRejection(COARSE_RANGE2, initial_mask, balance_factors,
                               combined_tissue, norm_field_image) :
       /\ rejection' = r
       /\ mask' = r.mask
       /\ prev_mask' = r.mask
       /\ num_voxels' = r.num_voxels
  /\ last_stage' = "coarse"
  /\ n_fits' = n_fits
  /\ pc' = "outer"
  /\ UNCHANGED <<config, reference_value, max_iter, images, counting, fields,
                 balance_factors, loops, error, output_written, outputs, runs, llt_failed>>

\* OuterLoop with the test iter < max_iter
OuterLoopShort ==
  /\ pc = "outer"
  /\ IF iter < max_iter
       THEN /\ balance_iter' = 1
            /\ balance_converged' = FALSE
            /\ pc' = "inner"
       ELSE /\ pc' = "write"
            /\ UNCHANGED <<balance_iter, balance_converged>>
  /\ UNCHANGED <<config, reference_value, max_iter, images, mask, prev_mask,
                 num_voxels, counting, fields, balance_factors, iter, rejection,
                 error, output_written, outputs, runs, llt_failed, history>>

\* while (iter <= max_iter)
OuterLoop ==
  /\ pc = "outer"
  /\ IF iter <= max_iter
       THEN /\ balance_iter' = 1
            /\ balance_converged' = FALSE
            /\ pc' = "inner"
       ELSE /\ pc' = "write"
            /\ UNCHANGED <<balance_iter, balance_converged>>
  /\ UNCHANGED <<config, reference_value, max_iter, images, mask, prev_mask,
                 num_voxels, counting, fields, balance_factors, iter, rejection,
                 error, output_written, outputs, runs, llt_failed, history>>

\* BalanceLoop that estimates balance factors for a single tissue too
BalanceLoopAlways ==
  /\ pc = "inner"
  /\ pc' = IF ~balance_converged /\ balance_iter <= DEFAULT_BALANCE_MAXITER_VALUE
             THEN "solve"
             ELSE "fit"
  /\ UNCHANGED <<config, reference_value, max_iter, images, mask, prev_mask,
                 num_voxels, counting, fields, balance_factors, loops, rejection,
                 error, output_written, outputs, runs, llt_failed, history>>

\* BalanceLoop with the test balance_iter < max_balance_iter
BalanceLoopShort ==
  /\ pc = "inner"
  /\ pc' = IF ~balance_converged /\ balance_iter < DEFAULT_BALANCE_MAXITER_VALUE
             THEN (IF n_tissue_types > 1 THEN "solve" ELSE "reject")
             ELSE "fit"
  /\ UNCHANGED <<config, reference_value, max_iter, images, mask, prev_mask,
                 num_voxels, counting, fields, balance_factors, loops, rejection,
                 error, output_written, outputs, runs, llt_failed, history>>

\* while (!balance_converged && balance_iter <= max_balance_iter)
BalanceLoop ==
  /\ pc = "inner"
  /\ pc' = IF ~balance_converged /\ balance_iter <= DEFAULT_BALANCE_MAXITER_VALUE
             THEN (IF n_tissue_types > 1 THEN "solve" ELSE "reject")
             ELSE "fit"
  /\ UNCHANGED <<config, reference_value, max_iter, images, mask, prev_mask,
                 num_voxels, counting, fields, balance_factors, loops, rejection,
                 error, output_written, outputs, runs, llt_failed, history>>

\* the design matrix of the balance factors: one row per voxel of the mask
BalanceDesign ==
  Collect(mask,
          [v \in Voxels |-> [j \in 1..n_tissue_types |->
                               FDiv(combined_tissue[j][v], norm_field_image[v])]],
          1)

\* y = Ones; X and the factors both carry Scale, so 1.0 is Scale * Scale here
BalanceTarget == [r \in 1..Len(BalanceDesign) |-> Scale * Scale]

\* balance_factors = Choleski (X, y)
BalanceSolve ==
  /\ pc = "solve"
  /\ balance_factors' \in Choleski(BalanceDesign, BalanceTarget, n_tissue_types, Scale)
  /\ llt_failed' = (llt_failed \/ ~SolvablePD(BalanceDesign, BalanceTarget, n_tissue_types))
  /\ last_stage' = "balance"
  /\ n_fits' = n_fits
  /\ pc' = "normalise"
  /\ UNCHANGED <<config, reference_value, max_iter, images, mask, prev_mask,
                 num_voxels, counting, fields, loops, rejection, error, output_written, outputs, runs>>

\* log_sum / n for a double log_sum
FDivInt(a, k) == IF IsFinite(a) THEN RDiv(a, k) ELSE a

\* the factors divided by their geometric mean
Normalised(bf) ==
  LET log_sum == FSum([j \in 1..Len(bf) |-> Log(bf[j])])
  IN  [j \in 1..Len(bf) |-> FDiv(bf[j], Exp(FDivInt(log_sum, Len(bf))))]

\* the check of the factors: the first non-positive one throws
BalanceNormalise ==
  /\ pc = "normalise"
  /\ IF \E j \in 1..n_tissue_types : FLeq(balance_factors[j], 0)
       THEN LET j == CHOOSE j \in 1..n_tissue_types :
                       /\ FLeq(balance_factors[j], 0)
                       /\ \A h \in 1..(j - 1) : ~FLeq(balance_factors[h], 0)
            IN  /\ error' = [msg |-> "Non-positive tissue balance factor was computed.",
                             tissue |-> j, value |-> balance_factors[j]]
                /\ pc' = "aborted"
                /\ UNCHANGED balance_factors
       ELSE /\ balance_factors' = Normalised(balance_factors)
            /\ pc' = "reject"
            /\ UNCHANGED error
  /\ UNCHANGED <<config, reference_value, max_iter, images, mask, prev_mask,
                 num_voxels, counting, fields, loops, rejection, output_written, outputs, runs,
                 llt_failed, history>>

\* BalanceRejection that starts from the working mask of the pass before
BalanceRejectionFromMask ==
  /\ pc = "reject"
  /\ \E r \in OutlierRejection(FINE_RANGE2, mask, balance_factors,
                               combined_tissue, norm_field_image) :
       /\ rejection' = r
       /\ mask' = r.mask
       /\ num_voxels' = r.num_voxels
  /\ last_stage' = "reject"
  /\ n_fits' = n_fits
  /\ pc' = "compare"
  /\ UNCHANGED <<config, reference_value, max_iter, images, prev_mask, counting,
                 fields, balance_factors, loops, error, output_written, outputs, runs,
                 llt_failed>>

\* BalanceRejection with the range of the coarse rejection
BalanceRejectionCoarse ==
  /\ pc = "reject"
  /\ \E r \in OutlierRejection(COARSE_RANGE2, initial_mask, balance_factors,
                               combined_tissue, norm_field_image) :
       /\ rejection' = r
       /\ mask' = r.mask
       /\ num_voxels' = r.num_voxels
  /\ last_stage' = "reject"
  /\ n_fits' = n_fits
  /\ pc' = "compare"
  /\ UNCHANGED <<config, reference_value, max_iter, images, prev_mask, counting,
                 fields, balance_factors, loops, error, output_written, outputs, runs, llt_failed>>

\* outlier_rejection (1.5f)
BalanceRejection ==
  /\ pc = "reject"
  /\ \E r \in OutlierRejection(FINE_RANGE2, initial_mask, balance_factors,
                               combined_tissue, norm_field_image) :
       /\ rejection' = r
       /\ mask' = r.mask
       /\ num_voxels' = r.num_voxels
  /\ last_stage' = "reject"
  /\ n_fits' = n_fits
  /\ pc' = "compare"
  /\ UNCHANGED <<config, reference_value, max_iter, images, prev_mask, counting,
                 fields, balance_factors, loops, error, output_written, outputs, runs, llt_failed>>

\* the comparison of mask with prev_mask, the snapshot, balance_iter++
BalanceCompare ==
  /\ pc = "compare"
  /\ balance_converged' = (\A v \in Voxels : mask[v] = prev_mask[v])
  /\ prev_mask' = mask
  /\ balance_iter' = balance_iter + 1
  /\ last_stage' = "compare"
  /\ n_fits' = n_fits
  /\ pc' = "inner"
  /\ UNCHANGED <<config, reference_value, max_iter, images, mask, num_voxels,
                 counting, fields, balance_factors, iter, rejection, error,
                 output_written, outputs, runs, llt_failed>>

\* the design matrix of the field: the basis at each voxel of the mask
FieldDesign ==
  Collect(mask,
          [v \in Voxels |-> PolyBasisFunction(GetBasisVecs(order), Position(v))],
          1)

\* y = log (sum_j balance_factors (j) * combined_tissue) - log_ref_value
FieldTarget ==
  Collect(mask,
          [v \in Voxels |->
             FSub(Log(FSum([j \in 1..n_tissue_types |->
                              FMul(balance_factors[j], combined_tissue[j][v])])),
                  Log(reference_value))],
          1)

\* norm_field_weights = Choleski (norm_field_basis, y)
FieldFit ==
  /\ pc = "fit"
  /\ norm_field_weights' \in Choleski(FieldDesign, FieldTarget, GetBasisVecs(order), LogSteps)
  /\ llt_failed' = (llt_failed \/ ~SolvablePD(FieldDesign, FieldTarget, GetBasisVecs(order)))
  /\ last_stage' = "fit"
  /\ n_fits' = n_fits + 1
  /\ pc' = "eval"
  /\ UNCHANGED <<config, reference_value, max_iter, images, mask, prev_mask,
                 num_voxels, counting, norm_field_image, norm_field_log,
                 balance_factors, loops, rejection, error, output_written, outputs, runs>>

\* struct NormFieldLog: basis_function (pos) . norm_field_weights
NormFieldLog(weights, v) ==
  LET basis == PolyBasisFunction(Len(weights), Position(v))
  IN  FSum([i \in 1..Len(weights) |-> FMulInt(basis[i], weights[i])])

\* struct NormFieldIm
NormFieldIm(l) == Exp(l)

\* the field in the log domain and in the image domain; iter++
FieldEvaluate ==
  /\ pc = "eval"
  /\ norm_field_log' = [v \in Voxels |-> NormFieldLog(norm_field_weights, v)]
  /\ norm_field_image' = [v \in Voxels |-> NormFieldIm(NormFieldLog(norm_field_weights, v))]
  /\ iter' = iter + 1
  /\ last_stage' = "eval"
  /\ n_fits' = n_fits
  /\ pc' = "outer"
  /\ UNCHANGED <<config, reference_value, max_iter, images, mask, prev_mask,
                 num_voxels, counting, norm_field_weights, balance_factors,
                 balance_iter, balance_converged, rejection, error, output_written, outputs, runs,
                 llt_failed>>

\* the volumes of the inputs after the first and the option -balanced, both
\* read only when the outputs are written (lines 665 and 682)
OutputConfigs ==
  { [balanced |-> FALSE, later |-> <<>>],
    [balanced |-> TRUE, later |-> <<0 - Scale, Scale>>] }

\* struct ReadInOutput: the row of volumes written at a voxel
ReadInOutput(in_row, balance_multiplier, field) ==
  IF FLess(in_row[1], 0)
    THEN [k \in 1..Len(in_row) |-> 0]
    ELSE [k \in 1..Len(in_row) |-> FDiv(FMul(in_row[k], balance_multiplier), field)]

\* a log-domain value as a plain number (in units of 1 / Scale), and
\* std::exp (a / n) of a plain number a: ln 2 is 0.69315, Scale / LogSteps is 2
LogToReal(l) == IF IsFinite(l) THEN RDiv(l * 13863, 10000) ELSE l
ExpOfReal(a, n) == IF IsFinite(a) THEN Exp(RDiv(a * 7213, 10000 * n)) ELSE Exp(a)

\* LogNormScale::operator(): one call, at voxel v, on the shared double
LogNormScaleCall(s, v) ==
  ExpOfReal(IF mask[v] THEN FAdd(s, LogToReal(norm_field_log[v])) ELSE s, num_voxels)

\* the orders in which the calls of the threads reach the shared double: the
\* call for the first voxel is overtaken by the calls for the d voxels after it
VisitOrders ==
  { [i \in Voxels |-> IF i <= d THEN i + 1 ELSE IF i = d + 1 THEN 1 ELSE i]
    : d \in 0..(NumVoxels - 1) }

RECURSIVE LogNormFold(_, _, _)
LogNormFold(s, ord, i) ==
  IF i > NumVoxels THEN s ELSE LogNormFold(LogNormScaleCall(s, ord[i]), ord, i + 1)

\* double lognorm_scale (0.0); if (num_voxels) ThreadedLoop (...).run (LogNormScale ...):
\* the values the pass can leave in lognorm_scale
LogNormScale ==
  IF num_voxels = 0 THEN {0} ELSE {LogNormFold(0, ord, 1) : ord \in VisitOrders}

\* the outputs are created and written
WriteOutput ==
  /\ pc = "write"
  /\ \E c \in OutputConfigs :
       /\ output_balanced' = c.balanced
       /\ later_volumes' = c.later
       /\ output_images' =
            [j \in 1..n_tissue_types |->
               [v \in Voxels |->
                  ReadInOutput(<<input_images[j][v]>> \o c.later,
                               IF c.balanced THEN balance_factors[j] ELSE Scale,
                               norm_field_image[v])]]
  /\ lognorm_scale' \in LogNormScale
  /\ output_written' = TRUE
  /\ pc' = "done"
  /\ UNCHANGED <<config, reference_value, max_iter, images, mask, prev_mask,
                 num_voxels, counting, fields, balance_factors, loops, rejection,
                 error, llt_failed, history, runs>>

\* the command is run a second time on the same images, mask and options
\* (a second run is explored after the first runs whose solves were all given
\* a positive definite matrix)
Rerun ==
  /\ pc = "done"
  /\ run = 1
  /\ ~llt_failed
  /\ run' = 2
  /\ first_run' = [reference_value |-> reference_value, max_iter |-> max_iter,
                    balance_factors |-> balance_factors, mask |-> mask,
                    norm_field_image |-> norm_field_image]
  /\ pc' = "setup"
  /\ reference_value' = 0
  /\ max_iter' = 0
  /\ initial_mask' = [v \in Voxels |-> FALSE]
  /\ mask' = [v \in Voxels |-> FALSE]
  /\ prev_mask' = [v \in Voxels |-> FALSE]
  /\ combined_tissue' = [j \in 1..n_tissue_types |-> [v \in Voxels |-> 0]]
  /\ num_voxels' = 0
  /\ cursor' = 0
  /\ pending' = [w \in Workers |-> Idle]
  /\ norm_field_weights' = <<>>
  /\ norm_field_image' = [v \in Voxels |-> 0]
  /\ norm_field_log' = [v \in Voxels |-> 0]
  /\ balance_factors' = <<>>
  /\ iter' = 0
  /\ balance_iter' = 0
  /\ balance_converged' = FALSE
  /\ rejection' = NoRejection
  /\ output_written' = FALSE
  /\ output_balanced' = FALSE
  /\ later_volumes' = <<>>
  /\ output_images' = <<>>
  /\ lognorm_scale' = 0
  /\ llt_failed' = FALSE
  /\ last_stage' = "none"
  /\ n_fits' = 0
  /\ UNCHANGED <<config, error>>

Next ==
  \/ Setup
  \/ \E w \in Workers : CountRead(w)
  \/ \E w \in Workers : CountWrite(w)
  \/ EmptyMask
  \/ Initialise
  \/ CoarseRejection
  \/ OuterLoop
  \/ BalanceLoop
  \/ BalanceSolve
  \/ BalanceNormalise
  \/ BalanceRejection
  \/ BalanceCompare
  \/ FieldFit
  \/ FieldEvaluate
  \/ WriteOutput
  \/ Rerun

Spec == Init /\ [][Next]_vars

\* ------------------------------------------------------------------- claims
Terminated == pc \in {"done", "aborted"}
EmptyMaskMsg == "Mask contains no valid voxels."
NonPositiveMsg == "Non-positive tissue balance factor was computed."
ActiveVoxels(m) == {v \in Voxels : m[v]}

\* a bound on the steps left, decreased by every step of the two runs
RunsLeft == 2 - run
OuterLeft == IF pc \in {"setup", "count"} THEN MaxIter + 1 ELSE (max_iter + 1) - iter
PassesLeft == (DEFAULT_BALANCE_MAXITER_VALUE + 1) - balance_iter
Rank ==
  CASE pc = "setup" -> 1000 * OuterLeft + 900
    [] pc = "count" -> 1000 * OuterLeft + 500 + 2 * (NumVoxels - cursor)
                         + Cardinality({w \in Workers : pending[w] # Idle})
    [] pc = "coarse" -> 1000 * OuterLeft + 300
    [] pc = "outer" -> 1000 * OuterLeft + 200
    [] pc = "inner" -> 1000 * OuterLeft + 20 + 10 * PassesLeft + 5
    [] pc = "solve" -> 1000 * OuterLeft + 20 + 10 * PassesLeft + 4
    [] pc = "normalise" -> 1000 * OuterLeft + 20 + 10 * PassesLeft + 3
    [] pc = "reject" -> 1000 * OuterLeft + 20 + 10 * PassesLeft + 2
    [] pc = "compare" -> 1000 * OuterLeft + 20 + 10 * PassesLeft + 1
    [] pc = "fit" -> 1000 * OuterLeft + 2
    [] pc = "eval" -> 1000 * OuterLeft + 1
    [] pc = "write" -> 1
    [] OTHER -> 0

RankOfRuns == 1000 * (MaxIter + 2) * RunsLeft + Rank

\* some step of the run can be taken: the guards of the steps at each position
CanStep ==
  CASE pc = "count" ->
         \/ cursor < NumVoxels /\ \E w \in Workers : pending[w] = Idle
         \/ \E w \in Workers : pending[w] # Idle
         \/ CountFinished
    [] pc = "coarse" ->
         OutlierRejection(COARSE_RANGE2, initial_mask, balance_factors,
                          combined_tissue, norm_field_image) # {}
    [] pc = "reject" ->
         OutlierRejection(FINE_RANGE2, initial_mask, balance_factors,
                          combined_tissue, norm_field_image) # {}
    [] pc = "solve" -> Choleski(BalanceDesign, BalanceTarget, n_tissue_types, Scale) # {}
    [] pc = "fit" -> Choleski(FieldDesign, FieldTarget, GetBasisVecs(order), LogSteps) # {}
    [] OTHER -> pc \in {"setup", "outer", "inner", "normalise", "compare", "eval", "write"}

\* C1 as stated: every run that passes INIT performs exactly max_iter field
\* fits and reaches DONE (stated for the runs in which every solve was given
\* a positive definite matrix).
C1_AlwaysReachesDone ==
  (Terminated /\ ~llt_failed /\ error.msg # EmptyMaskMsg) => (pc = "done" /\ n_fits = max_iter)

\* C1 amended: the outer loop is left only with iter > max_iter, after
\* exactly max_iter field fits, and then DONE is reached; the only other end of
\* a run that passed INIT is the non-positive balance factor error of a balance
\* estimation (T > 1); every run ends: no step is stuck before an end and
\* every step decreases RankOfRuns, which is never negative.
C1_OuterLoopRunsFully ==
  /\ [](pc \in {"write", "done"} => (n_fits = max_iter /\ iter = max_iter + 1))
  /\ []((pc = "aborted" /\ error.msg # EmptyMaskMsg)
          => (error.msg = NonPositiveMsg /\ n_tissue_types > 1 /\ last_stage = "balance"))
  /\ [](Terminated \/ CanStep)
  /\ [](RankOfRuns >= 0)
  /\ [][RankOfRuns' < RankOfRuns]_vars

\* a run of two tissues with well-posed solves that made MaxIter field fits
C1_Witness ==
  pc = "done" /\ n_fits = MaxIter /\ MaxIter > 1 /\ n_tissue_types = 2 /\ ~llt_failed

\* C2: the balance loop is left for the field fit after 1 to 7 passes, before
\* the 7th only when converged; a pass sets balance_converged exactly when its
\* mask equals prev_mask at every voxel; the loop goes on exactly while not
\* converged and at most 7 passes ran; leaving unconverged raises no error
\* and the fit uses the mask of the last pass.
C2_BalanceLoopPasses ==
  /\ [](pc = "fit" => /\ balance_iter - 1 \in 1..DEFAULT_BALANCE_MAXITER_VALUE
                      /\ (balance_iter - 1 < DEFAULT_BALANCE_MAXITER_VALUE => balance_converged)
                      /\ error = NoError
                      /\ mask = rejection.mask)
  /\ [][pc = "compare" => (balance_converged' <=> (\A v \in Voxels : mask[v] = prev_mask[v]))]_vars
  /\ [][pc = "inner" =>
          ((pc' = "fit") <=> (balance_converged \/ balance_iter > DEFAULT_BALANCE_MAXITER_VALUE))]_vars

\* the loop is left unconverged after 7 passes of well-posed solves
C2_Witness ==
  /\ pc = "fit" /\ ~balance_converged /\ ~llt_failed
  /\ balance_iter = DEFAULT_BALANCE_MAXITER_VALUE + 1
  /\ Cardinality(ActiveVoxels(initial_mask)) > 2

\* the stage b may follow the stage a
Follows(a, b) ==
  CASE b = "coarse" -> a = "none"
    [] b = "balance" -> n_tissue_types > 1 /\ a \in {"coarse", "compare", "eval"}
    [] b = "reject" -> IF n_tissue_types > 1 THEN a = "balance"
                       ELSE a \in {"coarse", "compare", "eval"}
    [] b = "compare" -> a = "reject"
    [] b = "fit" -> a = "compare"
    [] b = "eval" -> a = "fit"
    [] OTHER -> FALSE

\* C3: the rejection of range 3.0 is the first stage and runs once, with its
\* mask copied to prev_mask; every other rejection has range 1.5; in a pass
\* the estimation (T > 1) comes before the rejection and the rejection before
\* the comparison; the fit follows the last comparison of the iteration, the
\* evaluation follows the fit, once per outer iteration.
C3_StageOrder ==
  /\ [](rejection.range2 = COARSE_RANGE2 =>
          (last_stage \in {"coarse", "balance"} /\ n_fits = 0 /\ balance_iter <= 1))
  /\ [](last_stage = "coarse" => (prev_mask = mask /\ mask = rejection.mask
                                  /\ rejection.range2 = COARSE_RANGE2))
  /\ [](last_stage = "reject" => rejection.range2 = FINE_RANGE2)
  /\ [](last_stage \notin {"none", "coarse"} =>
          n_fits = (IF last_stage \in {"fit", "eval"} /\ pc = "eval" THEN iter ELSE iter - 1))
  /\ [][(last_stage' # last_stage /\ run' = run) => Follows(last_stage, last_stage')]_vars
  /\ [][(pc \in {"coarse", "solve", "reject", "compare", "fit", "eval"} /\ pc' # "aborted")
          => last_stage' # last_stage]_vars

\* two outer iterations of two tissues have been completed
C3_Witness ==
  last_stage = "eval" /\ n_fits = 2 /\ n_tissue_types = 2 /\ ~llt_failed

\* C4: an empty initial_mask ends the run at INIT with the error, before any
\* rejection or solve and without output; with a true voxel in initial_mask
\* the error is never raised, however the threads of the count interleave.
C4_EmptyMaskError ==
  /\ (error.msg = EmptyMaskMsg =>
        /\ ActiveVoxels(initial_mask) = {}
        /\ pc = "aborted" /\ last_stage = "none" /\ ~llt_failed /\ ~output_written)
  /\ ((ActiveVoxels(initial_mask) = {} /\ pc \notin {"setup", "count"}) =>
        (pc = "aborted" /\ error.msg = EmptyMaskMsg))

\* the positivity filter left no voxel of a non-empty -mask
C4_Witness ==
  /\ pc = "aborted" /\ error.msg = EmptyMaskMsg
  /\ \E v \in Voxels : orig_mask[v]

\* C5 as stated: after a balance estimation the run has aborted or every
\* factor is strictly positive when the normalisation has been applied.
C5_FactorsPositive ==
  (n_tissue_types > 1 /\ pc = "reject") =>
    \A j \in 1..n_tissue_types : FLess(0, balance_factors[j])

\* C6 as stated: once a solve was given a matrix that is not positive
\* definite the run stops: its result is used by no later step and no output
\* is written.
C6_FailedSolveStops ==
  llt_failed => (~output_written /\ pc \in {"normalise", "eval", "aborted"})

\* C7 as stated: two identical constant positive tissues, a full mask, order 0
\* and one iteration end in DONE with the factors [1, 1] and the constant field
\* (sum of the tissues) / reference_value.
C7_IdenticalTissues ==
  ( /\ n_tissue_types = 2
    /\ \A v \in Voxels : input_images[1][v] = Scale /\ input_images[2][v] = Scale
    /\ \A v \in Voxels : orig_mask[v]
    /\ order = 0 /\ max_iter = 1
    /\ Terminated )
  => /\ pc = "done"
     /\ balance_factors = <<Scale, Scale>>
     /\ \A v \in Voxels :
          norm_field_image[v] = Exp(Log(2 * Scale) - Log(reference_value))

\* C8: with a single tissue the balance factors are [1.0] from their
\* construction on: at every pass, at every outer iteration and at DONE.
C8_SingleTissueFactor ==
  (n_tissue_types = 1 /\ pc \notin {"setup", "count"} /\ error.msg # EmptyMaskMsg)
    => balance_factors = <<Scale>>

\* a single-tissue run that rejected a voxel and made MaxIter fits is done
C8_Witness ==
  /\ n_tissue_types = 1 /\ pc = "done" /\ n_fits = MaxIter /\ MaxIter > 1
  /\ mask # initial_mask /\ balance_iter > 2

\* the unclamped sum of the tissues at voxel v
RawSum(v) == FSum([j \in 1..n_tissue_types |-> input_images[j][v]])

\* C9: initial_mask is true exactly at the voxels where the summed tissue
\* value is finite and strictly positive and the -mask image is true, and no
\* step after its construction changes it.
C9_InitialMask ==
  /\ [](pc # "setup" =>
          \A v \in Voxels :
            initial_mask[v] <=> (orig_mask[v] /\ ~IsNaN(RawSum(v))
                                 /\ RawSum(v) # Inf /\ RawSum(v) # NegInf /\ RawSum(v) > 0))
  /\ [][(pc # "setup" /\ run' = run) => initial_mask' = initial_mask]_vars

\* a finished run whose -mask held a NaN voxel and a voxel of negative sum
C9_Witness ==
  /\ pc = "done" /\ n_fits > 0
  /\ \E v \in Voxels : orig_mask[v] /\ IsNaN(RawSum(v))
  /\ \E v \in Voxels : orig_mask[v] /\ ~IsNaN(RawSum(v)) /\ RawSum(v) < 0
  /\ \E v \in Voxels : initial_mask[v]

\* C10 as stated: over the N collected values (none a NaN) Q1 and Q3 are the
\* elements of 0-based rank round (0.25 N) and round (0.75 N), and the mask is
\* true exactly at the voxels of initial_mask whose value lies in the closed
\* interval [Q1 - range (Q3 - Q1), Q3 + range (Q3 - Q1)].
C10_QuartileRule ==
  LET vals == Collect(initial_mask, rejection.summed_log, 1)
      n == Len(vals)
      q1 == rejection.lower_quartile
      q3 == rejection.upper_quartile
  IN  (last_stage # "none" /\ n > 0 /\ \A i \in 1..n : ~IsNaN(vals[i])) =>
        /\ LowerQuartileIndex(n) < n
        /\ UpperQuartileIndex(n) < n
        /\ q1 = Ranked(vals, LowerQuartileIndex(n))
        /\ q3 = Ranked(vals, UpperQuartileIndex(n))
        /\ \A v \in Voxels :
             rejection.mask[v] <=>
               /\ initial_mask[v]
               /\ FLeq(LowerThreshold2(q1, q3, rejection.range2),
                       FMulInt(2, rejection.summed_log[v]))
               /\ FLeq(FMulInt(2, rejection.summed_log[v]),
                       UpperThreshold2(q1, q3, rejection.range2))

\* C11 as stated: every written value, at every tissue, voxel and volume, is
\* max (input, 0) m_j / norm_field_image, with m_j the balance factor of the
\* tissue under -balanced and 1 otherwise.
C11_OutputFormula ==
  pc = "done" =>
    \A j \in 1..n_tissue_types : \A v \in Voxels : \A k \in 1..(1 + Len(later_volumes)) :
      output_images[j][v][k] =
        FDiv(FMul(FMax((<<input_images[j][v]>> \o later_volumes)[k], 0),
                  IF output_balanced THEN balance_factors[j] ELSE Scale),
             norm_field_image[v])

\* C12 as stated: with an active voxel in the final mask, the lognorm_scale
\* recorded is exp of (the sum of norm_field_log over the active voxels
\* divided by num_voxels).
C12_LogNormScale ==
  (pc = "done" /\ ActiveVoxels(mask) # {}) =>
    lognorm_scale = Exp(FDivInt(FSum(Collect(mask, norm_field_log, 1)), num_voxels))

\* C13 as stated: when the count of the setup is over, under every
\* interleaving of the threads, num_voxels is the number of true voxels of
\* mask: no increment of the shared counter is lost.
C13_CountRaceFree ==
  ((pc = "count" /\ CountFinished) \/ pc = "coarse") =>
    num_voxels = Cardinality(ActiveVoxels(mask))

\* C14 as stated: a second run on the same tissue volumes, mask and options
\* ends with the balance factors, the mask and the field of the first.
C14_SameResults ==
  (run = 2 /\ pc = "done") =>
    /\ balance_factors = first_run.balance_factors
    /\ mask = first_run.mask
    /\ norm_field_image = first_run.norm_field_image

C16_RowsPerActiveVoxel ==
  pc \in {"solve", "fit"} =>
    (num_voxels = Cardinality(ActiveVoxels(mask)) /\ num_voxels >= 1)

\* C17 as stated: in every rejection pass over N >= 1 collected values the two
\* quartile positions satisfy 0 <= lower <= upper <= N - 1.
C17_QuartileIndicesValid ==
  (last_stage # "none" /\ rejection.collected >= 1) =>
    /\ 0 <= LowerQuartileIndex(rejection.collected)
    /\ LowerQuartileIndex(rejection.collected) <= UpperQuartileIndex(rejection.collected)
    /\ UpperQuartileIndex(rejection.collected) <= rejection.collected - 1

\* C18 as stated: with a single tissue the balance loop of every outer
\* iteration is left after at most 2 passes.
C18_SingleTissueTwoPasses ==
  (n_tissue_types = 1 /\ pc = "fit") => balance_iter - 1 <= 2

====
